---- MODULE Spec2Model ----
(***************************************************************************)
(* Contacts API (FastAPI + SQLAlchemy + Redis): the identity-resolution    *)
(* path with its read-through user cache, the credential service (JWT     *)
(* issue / decode, password hashing), the auth handlers that touch the     *)
(* user store or the cache, and the contact repository's filtered search.  *)
(*                                                                         *)
(* Time is in minutes.  Every handler is split at its I/O operations (a    *)
(* user-store query or commit, a Redis command): these are the points      *)
(* where another request can run.  Spec schedules one request at a time;   *)
(* SpecConc interleaves the steps of several requests.                     *)
(***************************************************************************)
EXTENDS Integers, Sequences, FiniteSets, TLC

\* ---------------------------------------------------------------- bounds
MaxReqs == 2
MaxContacts == 2
MaxRequiredRoles == 3

\* ------------------------------------------------------ program constants
\* create_jwt_token(expires_delta: float = 15), minutes
DefaultExpiresDelta == 15
\* request_password_reset: expires_delta=10
ResetExpiresDelta == 10
\* cache_user: setex(user_key, timedelta(hours=1), ...), in minutes
CacheTTL == 60

HTTP_200_OK == 200
HTTP_201_CREATED == 201
HTTP_202_ACCEPTED == 202
HTTP_204_NO_CONTENT == 204
HTTP_400_BAD_REQUEST == 400
HTTP_401_UNAUTHORIZED == 401
HTTP_403_FORBIDDEN == 403
HTTP_404_NOT_FOUND == 404
HTTP_409_CONFLICT == 409
HTTP_500_INTERNAL_SERVER_ERROR == 500

\* ------------------------------------------------------------ value sets
Emails == {"e1", "e2"}
Usernames == {"n1", "n2"}
Passwords == {"p1", "p2"}
AvatarUrls == {"av1"}
Scopes == {"access_token", "verification_token", "password_reset"}
ClockValues == {0, 15, 60}
Salts == 1..8
UserIds == 1..8
Reqs == 1..MaxReqs

NoEmail == "no_email"
NoAvatar == "no_avatar"
NoUser == [id |-> 0]
NoEntry == [expiresAt |-> 0]
NoToken == [signed |-> FALSE]
NoBody == [none |-> TRUE]

Min(S) == CHOOSE x \in S : \A y \in S : x <= y

\* ----------------------------------------------------- credential service
\* bcrypt: a salted one-way hash; the salt is drawn fresh at every call
hash_password(password, salt) == [pw |-> password, salt |-> salt]

verify_password(plain_password, hashed_password) ==
    hashed_password.pw = plain_password

create_jwt_token(email, scope, expires_delta, t) ==
    [email |-> email, scope |-> scope, exp |-> t + expires_delta, signed |-> TRUE]

\* decode_jwt_token without the payload.get("scope") != scope comparison
decode_jwt_token_any_scope(token, scope, t) ==
    IF ~token.signed \/ token.exp < t
    THEN [status |-> HTTP_401_UNAUTHORIZED, detail |-> "Could not validate credentials",
          email |-> NoEmail]
    ELSE [status |-> HTTP_200_OK, detail |-> "ok", email |-> token.email]

\* decode_jwt_token with jwt.decode(..., options={"verify_exp": False})
decode_jwt_token_no_exp(token, scope, t) ==
    IF ~token.signed
    THEN [status |-> HTTP_401_UNAUTHORIZED, detail |-> "Could not validate credentials",
          email |-> NoEmail]
    ELSE IF token.scope # scope
    THEN [status |-> HTTP_401_UNAUTHORIZED, detail |-> "Invalid token scope",
          email |-> NoEmail]
    ELSE [status |-> HTTP_200_OK, detail |-> "ok", email |-> token.email]

\* jwt.decode raises JWTError on a bad signature and when exp < now;
\* the scope comparison follows; both failures surface as 401.
decode_jwt_token(token, scope, t) ==
    IF ~token.signed \/ token.exp < t
    THEN [status |-> HTTP_401_UNAUTHORIZED, detail |-> "Could not validate credentials",
          email |-> NoEmail]
    ELSE IF token.scope # scope
    THEN [status |-> HTTP_401_UNAUTHORIZED, detail |-> "Invalid token scope",
          email |-> NoEmail]
    ELSE [status |-> HTTP_200_OK, detail |-> "ok", email |-> token.email]

\* decode_verification_token turning a rejected token into 400
decode_verification_token_bad_request(token, t) ==
    LET d == decode_jwt_token(token, "verification_token", t)
    IN IF d.status = HTTP_200_OK THEN d ELSE [d EXCEPT !.status = HTTP_400_BAD_REQUEST]

\* decode_verification_token that accepts a token of any scope
decode_verification_token_any_scope(token, t) ==
    decode_jwt_token_any_scope(token, "verification_token", t)

\* AuthService.decode_verification_token
decode_verification_token(token, t) == decode_jwt_token(token, "verification_token", t)

\* ------------------------------------------------------------- user store
get_user_by_email(us, email) ==
    IF \E u \in us : u.email = email
    THEN CHOOSE u \in us : u.email = email
    ELSE NoUser

get_user_by_username(us, username) ==
    IF \E u \in us : u.username = username
    THEN CHOOSE u \in us : u.username = username
    ELSE NoUser

get_user_by_id(us, user_id) ==
    IF \E u \in us : u.id = user_id
    THEN CHOOSE u \in us : u.id = user_id
    ELSE NoUser

\* a users table whose username and email columns are not unique
UsersUnique_primary_key_only(us) ==
    \A u, v \in us : u.id = v.id => u = v

\* UNIQUE(username), UNIQUE(email) of the users table
UsersUnique(us) ==
    \A u, v \in us : (u.email = v.email \/ u.username = v.username \/ u.id = v.id) => u = v

create_user(us, user_in, hashed_password, id) ==
    us \cup {[id |-> id, username |-> user_in.username, email |-> user_in.email,
              hashed_password |-> hashed_password, avatar |-> user_in.avatar,
              confirmed |-> user_in.confirmed]}

\* update_password whose UPDATE is never committed
update_password_not_committed(us, user, hashed_password) == us

update_password(us, user, hashed_password) ==
    {IF u.id = user.id THEN [u EXCEPT !.hashed_password = hashed_password] ELSE u : u \in us}

update_user_avatar(us, user_id, new_avatar_url) ==
    {IF u.id = user_id THEN [u EXCEPT !.avatar = new_avatar_url] ELSE u : u \in us}

change_confirmed_email(us, email) ==
    {IF u.email = email THEN [u EXCEPT !.confirmed = TRUE] ELSE u : u \in us}

delete_user(us, user_id) == {u \in us : u.id # user_id}

\* ------------------------------------------------------------- user cache
\* pickle.dumps / pickle.loads of a detached UserModel: the column values
pickle_dumps(user) == [pickled |-> user]

pickle_loads(user_data) == user_data.pickled

\* cache_user with timedelta(hours=2)
cache_user_two_hours(c, email, user, t) ==
    [c EXCEPT ![email] = [data |-> pickle_dumps(user), expiresAt |-> t + 2 * CacheTTL]]

\* Redis SETEX user:<email> 3600 <data>
cache_user(c, email, user, t) ==
    [c EXCEPT ![email] = [data |-> pickle_dumps(user), expiresAt |-> t + CacheTTL]]

\* get_cached_user that never finds the key
get_cached_user_never(c, email) == NoUser

\* Redis GET user:<email>
get_cached_user(c, email) ==
    IF c[email] # NoEntry THEN pickle_loads(c[email].data) ELSE NoUser

\* a DEL of a key that is not user:<email>
redis_delete_other_key(c, email) == c

\* Redis DEL user:<email>
redis_delete(c, email) == [c EXCEPT ![email] = NoEntry]

\* Redis drops a key once its time-to-live has elapsed
redis_expire(c, t) ==
    [e \in Emails |-> IF c[e] # NoEntry /\ c[e].expiresAt <= t THEN NoEntry ELSE c[e]]

\* ---------------------------------------------------------- contact store
\* text is a sequence of one-character strings
Lower(ch) == CASE ch = "J" -> "j" [] ch = "O" -> "o" [] OTHER -> ch

LowerText(text) == [i \in 1..Len(text) |-> Lower(text[i])]

\* SQL LIKE: % matches any run of characters, _ any one character
RECURSIVE like(_, _)
like(text, pattern) ==
    IF pattern = <<>> THEN text = <<>>
    ELSE IF Head(pattern) = "%"
    THEN like(text, Tail(pattern)) \/ (text # <<>> /\ like(Tail(text), pattern))
    ELSE /\ text # <<>>
         /\ (Head(pattern) = "_" \/ Head(pattern) = Head(text))
         /\ like(Tail(text), Tail(pattern))

\* column.ilike(pattern): LIKE on the lower-cased operands
ilike(text, pattern) == like(LowerText(text), LowerText(pattern))

\* the String columns of ContactsModel
TextColumns == {"first_name", "last_name", "email", "phone_number", "other_info"}

\* a contacts table without uq_contact_email_user and uq_contact_phone_user
ContactsUnique_primary_key_only(cs) ==
    \A c, d \in cs : c.id = d.id => c = d

\* uq_contact_email_user, uq_contact_phone_user and the primary key
ContactsUnique(cs) ==
    \A c, d \in cs :
        (\/ c.id = d.id
         \/ (c.email = d.email /\ c.user_id = d.user_id)
         \/ (c.phone_number = d.phone_number /\ c.user_id = d.user_id)) => c = d

NoContact == [id |-> 0]

\* select ... where id == contact_id and user_id == user_id, first()
get_contact_by_id(cs, contact_id, user_id) ==
    IF \E c \in cs : c.id = contact_id /\ c.user_id = user_id
    THEN CHOOSE c \in cs : c.id = contact_id /\ c.user_id = user_id
    ELSE NoContact

\* the pages select ... where user_id == user_id offset skip limit limit
\* can return
get_contacts(cs, user_id, skip, limit) ==
    LET owned == {c \in cs : c.user_id = user_id}
        rest == IF Cardinality(owned) > skip THEN Cardinality(owned) - skip ELSE 0
        size == IF rest < limit THEN rest ELSE limit
    IN {page \in SUBSET owned : Cardinality(page) = size}

\* update_contact without the contact.user_id == user_id test
update_contact_any_owner(cs, contact_id, body, user_id) ==
    {IF c.id = contact_id
     THEN [f \in DOMAIN c |-> IF f \in DOMAIN body THEN body[f] ELSE c[f]]
     ELSE c : c \in cs}

\* update_contact dumping the whole body: unset text fields become empty
update_contact_dump_all(cs, contact_id, body, user_id) ==
    {IF c.id = contact_id /\ c.user_id = user_id
     THEN [f \in DOMAIN c |-> IF f \in DOMAIN body THEN body[f]
                              ELSE IF f \in TextColumns THEN <<>> ELSE c[f]]
     ELSE c : c \in cs}

\* db.get(ContactsModel, contact_id); setattr for every field the body sets
update_contact(cs, contact_id, body, user_id) ==
    {IF c.id = contact_id /\ c.user_id = user_id
     THEN [f \in DOMAIN c |-> IF f \in DOMAIN body THEN body[f] ELSE c[f]]
     ELSE c : c \in cs}

\* delete_contact without the owner test
delete_contact_any_owner(cs, contact_id, user_id) ==
    {c \in cs : c.id # contact_id}

\* db.get(ContactsModel, contact_id); db.delete when it is the caller's
delete_contact(cs, contact_id, user_id) ==
    {c \in cs : ~(c.id = contact_id /\ c.user_id = user_id)}

\* ContactRepository.create_contact: the row INSERTed for the body
create_contact(cs, contact, user_id, id) ==
    cs \cup {[id |-> id, first_name |-> contact.first_name,
              last_name |-> contact.last_name, email |-> contact.email,
              phone_number |-> contact.phone_number, birthday |-> contact.birthday,
              other_info |-> contact.other_info, user_id |-> user_id]}

\* getattr(ContactsModel, field, None)
model_field(field) == IF field \in TextColumns THEN field ELSE "None"

\* search_contacts_repo without the "if not filters: return []" guard
search_contacts_repo_unguarded(cs, filters, user_id) ==
    [result |-> {c \in cs :
                    /\ c.user_id = user_id
                    /\ \A f \in {k \in DOMAIN filters : model_field(k) # "None"} :
                          ilike(c[f], <<"%">> \o filters[f] \o <<"%">>)},
     executed |-> TRUE]

\* search_contacts_repo: [] for an empty mapping without a query, else the
\* rows matching user_id and an ilike condition per key that is a column
search_contacts_repo(cs, filters, user_id) ==
    IF DOMAIN filters = {}
    THEN [result |-> {}, executed |-> FALSE]
    ELSE LET conditions ==
                 {"user_id"} \cup {f \in DOMAIN filters : model_field(f) # "None"}
         IN IF conditions = {}
            THEN [result |-> {}, executed |-> FALSE]
            ELSE [result |-> {c \in cs :
                                /\ c.user_id = user_id
                                /\ \A f \in conditions \ {"user_id"} :
                                      ilike(c[f], <<"%">> \o filters[f] \o <<"%">>)},
                  executed |-> TRUE]

NoCall == [op |-> "none"]

\* ------------------------------------------------------------ permissions
\* the values of the role enum
Roles == {"ADMIN", "MODERATOR", "USER"}

\* RoleChecker that looks at the first required role only
RoleChecker_first_role(required_roles, user) ==
    IF required_roles = <<>> \/ required_roles[1] # user.role
    THEN [error |-> "HTTPException", status |-> HTTP_403_FORBIDDEN,
          detail |-> "Operation forbidden: insufficient permissions."]
    ELSE [error |-> "none", status |-> 0, detail |-> ""]

\* RoleChecker(required_roles).__call__(user): user.role not in the list
RoleChecker(required_roles, user) ==
    IF \A i \in 1..Len(required_roles) : required_roles[i] # user.role
    THEN [error |-> "HTTPException", status |-> HTTP_403_FORBIDDEN,
          detail |-> "Operation forbidden: insufficient permissions."]
    ELSE [error |-> "none", status |-> 0, detail |-> ""]

\* datetime.date and date + timedelta(days=n)
Date(y, m, d) == [year |-> y, month |-> m, day |-> d]

IsLeap(y) == (y % 4 = 0 /\ y % 100 # 0) \/ y % 400 = 0

DaysInMonth(y, m) ==
    IF m = 2 THEN (IF IsLeap(y) THEN 29 ELSE 28)
    ELSE IF m \in {4, 6, 9, 11} THEN 30 ELSE 31

RECURSIVE AddDays(_, _)
AddDays(date, n) ==
    IF n = 0 THEN date
    ELSE IF date.day < DaysInMonth(date.year, date.month)
    THEN AddDays(Date(date.year, date.month, date.day + 1), n - 1)
    ELSE IF date.month < 12
    THEN AddDays(Date(date.year, date.month + 1, 1), n - 1)
    ELSE AddDays(Date(date.year + 1, 1, 1), n - 1)

\* get_contacts_upcoming_birthdays with extract("day", birthday) < future.day
get_contacts_upcoming_birthdays_open(cs, user_id, days, date_today) ==
    LET future_date == AddDays(date_today, days)
    IN IF date_today.month = future_date.month
       THEN {c \in cs : /\ c.birthday.month = date_today.month
                        /\ c.birthday.day >= date_today.day
                        /\ c.birthday.day < future_date.day
                        /\ c.user_id = user_id}
       ELSE {c \in cs : /\ \/ /\ c.birthday.month = date_today.month
                              /\ c.birthday.day >= date_today.day
                           \/ /\ c.birthday.month = future_date.month
                              /\ c.birthday.day < future_date.day
                        /\ c.user_id = user_id}

\* get_contacts_upcoming_birthdays that always takes the one-month branch
get_contacts_upcoming_birthdays_one_month(cs, user_id, days, date_today) ==
    LET future_date == AddDays(date_today, days)
    IN {c \in cs : /\ c.birthday.month = date_today.month
                   /\ c.birthday.day >= date_today.day
                   /\ c.birthday.day <= future_date.day
                   /\ c.user_id = user_id}

\* get_contacts_upcoming_birthdays(user_id, days) run on the day date_today
get_contacts_upcoming_birthdays(cs, user_id, days, date_today) ==
    LET future_date == AddDays(date_today, days)
    IN IF date_today.month = future_date.month
       THEN {c \in cs : /\ c.birthday.month = date_today.month
                        /\ c.birthday.day >= date_today.day
                        /\ c.birthday.day <= future_date.day
                        /\ c.user_id = user_id}
       ELSE {c \in cs : /\ \/ /\ c.birthday.month = date_today.month
                              /\ c.birthday.day >= date_today.day
                           \/ /\ c.birthday.month = future_date.month
                              /\ c.birthday.day <= future_date.day
                        /\ c.user_id = user_id}

\* ------------------------------------------------------------------ state
VARIABLES
    now,        \* wall clock, minutes
    users,      \* rows of the users table
    cache,      \* Redis: email -> entry of key user:<email>, or NoEntry
    req,        \* per request slot: handler, position, locals, response
    contacts,   \* rows of the contacts table
    call,       \* the last ContactRepository call: arguments and outcome
    today       \* date.today()

vars == <<now, users, cache, req, contacts, call, today>>

IdleReq ==
    [op |-> "none", pc |-> "idle", token |-> NoToken, email |-> NoEmail,
     user |-> NoUser, body |-> NoBody, status |-> 0, detail |-> "",
     access_token |-> NoToken, mailed |-> NoToken, queried |-> FALSE]

Init ==
    /\ now = 0
    /\ users = {}
    /\ cache = [e \in Emails |-> NoEntry]
    /\ req = [r \in Reqs |-> IdleReq]
    /\ contacts = {}
    /\ call = NoCall
    /\ today = Date(2025, 5, 10)

\* values still held somewhere: a fresh salt / id differs from all of them
HeldUsers ==
    users \cup {pickle_loads(cache[e].data) : e \in {x \in Emails : cache[x] # NoEntry}}
          \cup {req[r].user : r \in {x \in Reqs : req[x].user # NoUser}}

FreshSalt(password) ==
    Min({s \in Salts : \A u \in HeldUsers : u.hashed_password # hash_password(password, s)})

FreshId == Min(UserIds \ {u.id : u \in HeldUsers})

ExpiresDelta(scope) ==
    IF scope = "password_reset" THEN ResetExpiresDelta ELSE DefaultExpiresDelta

\* a bearer string that was not signed with SECRET_KEY
Forged == {[email |-> "e1", scope |-> "access_token", exp |-> 60, signed |-> FALSE]}

\* The tokens a client can present for the addresses in emails.  Tokens are
\* stateless: whoever held an account for the address at an earlier instant
\* (an account since deleted included) can hold the access token login
\* returned then, and the verification and reset tokens mailed then.
Presentable(emails) ==
    {create_jwt_token(e, s, ExpiresDelta(s), t) :
        e \in emails, s \in Scopes, t \in {c \in ClockValues : c <= now}} \cup Forged

CanStart(r) == req[r].pc \in {"idle", "done"}

Respond(r, status, detail) ==
    [req EXCEPT ![r] = [@ EXCEPT !.pc = "done", !.status = status, !.detail = detail]]

NewReq(op, token, body) == [IdleReq EXCEPT !.op = op, !.token = token, !.body = body]

\* handlers that declare Depends(get_current_user)
Authenticated == {"me", "avatar"}

\* ------------------------------------------- get_current_user (dependency)
\* What follows identity resolution: read_current_user returns the user,
\* update_avatar_user goes on to its body.
Resolved(rq, user) ==
    IF rq.op = "me"
    THEN [rq EXCEPT !.pc = "done", !.status = HTTP_200_OK, !.detail = "ok",
                    !.user = user]
    ELSE [rq EXCEPT !.pc = "body", !.user = user]

\* decode the bearer token, then GET user:<email>
get_current_user(r, op, token, body) ==
    /\ CanStart(r)
    /\ LET rq == NewReq(op, token, body)
           d == decode_jwt_token(token, "access_token", now)
       IN IF d.status # HTTP_200_OK
          THEN req' = [req EXCEPT ![r] = [rq EXCEPT !.pc = "done", !.status = d.status,
                                                    !.detail = d.detail]]
          ELSE LET cached_user == get_cached_user(cache, d.email)
               IN IF cached_user # NoUser
                  THEN req' = [req EXCEPT ![r] = Resolved([rq EXCEPT !.email = d.email],
                                                          cached_user)]
                  ELSE req' = [req EXCEPT ![r] = [rq EXCEPT !.pc = "db", !.email = d.email]]
    /\ UNCHANGED <<now, users, cache, contacts, call, today>>

\* get_current_user_db raising 404 for an unknown user
get_current_user_db_404(r) ==
    /\ req[r].op \in Authenticated
    /\ req[r].pc = "db"
    /\ LET user == get_user_by_email(users, req[r].email)
       IN IF user = NoUser
          THEN req' = [req EXCEPT ![r] = [@ EXCEPT !.pc = "done", !.queried = TRUE,
                                                   !.status = HTTP_404_NOT_FOUND,
                                                   !.detail = "User not found."]]
          ELSE req' = [req EXCEPT ![r] = [@ EXCEPT !.pc = "cache", !.queried = TRUE,
                                                   !.user = user]]
    /\ UNCHANGED <<now, users, cache, contacts, call, today>>

\* cache miss: await user_repo.get_user_by_email(email)
get_current_user_db(r) ==
    /\ req[r].op \in Authenticated
    /\ req[r].pc = "db"
    /\ LET user == get_user_by_email(users, req[r].email)
       IN IF user = NoUser
          THEN req' = [req EXCEPT ![r] = [@ EXCEPT !.pc = "done", !.queried = TRUE,
                                                   !.status = HTTP_401_UNAUTHORIZED,
                                                   !.detail = "Could not validate credentials"]]
          ELSE req' = [req EXCEPT ![r] = [@ EXCEPT !.pc = "cache", !.queried = TRUE,
                                                   !.user = user]]
    /\ UNCHANGED <<now, users, cache, contacts, call, today>>

\* auth_service.cache_user(email, user); return user
get_current_user_cache(r) ==
    /\ req[r].op \in Authenticated
    /\ req[r].pc = "cache"
    /\ cache' = cache_user(cache, req[r].email, req[r].user, now)
    /\ req' = [req EXCEPT ![r] = Resolved(@, req[r].user)]
    /\ UNCHANGED <<now, users, contacts, call, today>>

\* GET /auth/me
read_current_user(r, emails) ==
    \E token \in Presentable(emails) : get_current_user(r, "me", token, NoBody)

\* ------------------------------------------------ PATCH /users/avatar
update_avatar_user_start(r, emails) ==
    \E token \in Presentable(emails), url \in AvatarUrls :
        get_current_user(r, "avatar", token, [avatar_url |-> url])

\* update_avatar_user that also deletes user:<email>
update_avatar_user_evicting(r) ==
    /\ req[r].op = "avatar"
    /\ req[r].pc = "body"
    /\ users' = update_user_avatar(users, req[r].user.id, req[r].body.avatar_url)
    /\ cache' = redis_delete(cache, req[r].user.email)
    /\ LET user == get_user_by_id(users', req[r].user.id)
       IN IF user = NoUser
          THEN req' = Respond(r, HTTP_500_INTERNAL_SERVER_ERROR, "response validation")
          ELSE req' = [req EXCEPT ![r] = [@ EXCEPT !.pc = "done", !.status = HTTP_200_OK,
                                                   !.detail = "ok", !.user = user]]
    /\ UNCHANGED <<now, contacts, call, today>>

\* user_repo.update_user_avatar(user.id, avatar_url); a None result does
\* not validate against UserResponseSchema
update_avatar_user(r) ==
    /\ req[r].op = "avatar"
    /\ req[r].pc = "body"
    /\ users' = update_user_avatar(users, req[r].user.id, req[r].body.avatar_url)
    /\ LET user == get_user_by_id(users', req[r].user.id)
       IN IF user = NoUser
          THEN req' = Respond(r, HTTP_500_INTERNAL_SERVER_ERROR, "response validation")
          ELSE req' = [req EXCEPT ![r] = [@ EXCEPT !.pc = "done", !.status = HTTP_200_OK,
                                                   !.detail = "ok", !.user = user]]
    /\ UNCHANGED <<now, cache, contacts, call, today>>

\* ------------------------------------------------------- POST /auth/signup
\* user_repo.get_user_by_email(body.email): 409 when the e-mail is taken
signup(r, accounts) ==
    \E account \in accounts, password \in Passwords, confirmed \in BOOLEAN :
        /\ CanStart(r)
        /\ LET username == account[1]
               email == account[2]
               body == [username |-> username, email |-> email, password |-> password,
                        avatar |-> NoAvatar, confirmed |-> confirmed]
               rq == NewReq("signup", NoToken, body)
           IN IF get_user_by_email(users, email) # NoUser
              THEN req' = [req EXCEPT ![r] = [rq EXCEPT !.pc = "done",
                                                        !.status = HTTP_409_CONFLICT,
                                                        !.detail = "Account already exists"]]
              ELSE req' = [req EXCEPT ![r] = [rq EXCEPT !.pc = "insert"]]
        /\ UNCHANGED <<now, users, cache, contacts, call, today>>

\* hash_password, user_repo.create_user (INSERT, commit), then the
\* confirmation e-mail with its verification token; a UNIQUE violation is
\* an IntegrityError nobody catches
signup_insert(r) ==
    /\ req[r].op = "signup"
    /\ req[r].pc = "insert"
    /\ LET body == req[r].body
           hashed_password == hash_password(body.password, FreshSalt(body.password))
           us == create_user(users, body, hashed_password, FreshId)
       IN IF UsersUnique(us)
          THEN /\ users' = us
               /\ req' = [req EXCEPT ![r] = [@ EXCEPT !.pc = "done",
                                !.status = HTTP_201_CREATED, !.detail = "ok",
                                !.user = get_user_by_email(us, body.email),
                                !.mailed = create_jwt_token(body.email, "verification_token",
                                                            DefaultExpiresDelta, now)]]
          ELSE /\ req' = Respond(r, HTTP_500_INTERNAL_SERVER_ERROR, "IntegrityError")
               /\ UNCHANGED users
    /\ UNCHANGED <<now, cache, contacts, call, today>>

\* -------------------------------------------------------- POST /auth/login
\* login without the test of user.confirmed
login_unverified_email(r, accounts) ==
    \E username \in {a[1] : a \in accounts}, password \in Passwords :
        /\ CanStart(r)
        /\ LET rq == NewReq("login", NoToken, [username |-> username, password |-> password])
               user == get_user_by_username(users, username)
               Fail(detail) == [rq EXCEPT !.pc = "done", !.status = HTTP_401_UNAUTHORIZED,
                                          !.detail = detail]
           IN IF user = NoUser
              THEN req' = [req EXCEPT ![r] = Fail("Invalid email")]
              ELSE IF ~verify_password(password, user.hashed_password)
              THEN req' = [req EXCEPT ![r] = Fail("Invalid password")]
              ELSE req' = [req EXCEPT ![r] = [rq EXCEPT !.pc = "cache", !.user = user,
                                                        !.email = user.email]]
        /\ UNCHANGED <<now, users, cache, contacts, call, today>>

\* user_repo.get_user_by_username(body.username) and the three checks
login(r, accounts) ==
    \E username \in {a[1] : a \in accounts}, password \in Passwords :
        /\ CanStart(r)
        /\ LET rq == NewReq("login", NoToken, [username |-> username, password |-> password])
               user == get_user_by_username(users, username)
               Fail(detail) == [rq EXCEPT !.pc = "done", !.status = HTTP_401_UNAUTHORIZED,
                                          !.detail = detail]
           IN IF user = NoUser
              THEN req' = [req EXCEPT ![r] = Fail("Invalid email")]
              ELSE IF ~user.confirmed
              THEN req' = [req EXCEPT ![r] = Fail("Email is not verified")]
              ELSE IF ~verify_password(password, user.hashed_password)
              THEN req' = [req EXCEPT ![r] = Fail("Invalid password")]
              ELSE req' = [req EXCEPT ![r] = [rq EXCEPT !.pc = "cache", !.user = user,
                                                        !.email = user.email]]
        /\ UNCHANGED <<now, users, cache, contacts, call, today>>

\* create_jwt_token(payload={"email": user.email}); cache_user(user.email, user)
login_cache(r) ==
    /\ req[r].op = "login"
    /\ req[r].pc = "cache"
    /\ LET access_token == create_jwt_token(req[r].user.email, "access_token",
                                            DefaultExpiresDelta, now)
       IN /\ cache' = cache_user(cache, req[r].user.email, req[r].user, now)
          /\ req' = [req EXCEPT ![r] = [@ EXCEPT !.pc = "done", !.status = HTTP_200_OK,
                                                 !.detail = "ok",
                                                 !.access_token = access_token]]
    /\ UNCHANGED <<now, users, contacts, call, today>>

\* ------------------------------------------- GET /auth/confirmed_email/{token}
confirmed_email(r, emails) ==
    \E token \in Presentable(emails) :
        /\ CanStart(r)
        /\ LET rq == NewReq("confirm", token, NoBody)
               d == decode_verification_token(token, now)
               user == get_user_by_email(users, d.email)
           IN IF d.status # HTTP_200_OK
              THEN req' = [req EXCEPT ![r] = [rq EXCEPT !.pc = "done", !.status = d.status,
                                                        !.detail = d.detail]]
              ELSE IF user = NoUser
              THEN req' = [req EXCEPT ![r] = [rq EXCEPT !.pc = "done", !.email = d.email,
                                                        !.status = HTTP_400_BAD_REQUEST,
                                                        !.detail = "Verification error"]]
              ELSE IF user.confirmed
              THEN req' = [req EXCEPT ![r] = [rq EXCEPT !.pc = "done", !.email = d.email,
                                                        !.user = user,
                                                        !.status = HTTP_200_OK,
                                                        !.detail = "Your email is already confirmed"]]
              ELSE req' = [req EXCEPT ![r] = [rq EXCEPT !.pc = "commit", !.email = d.email,
                                                        !.user = user]]
        /\ UNCHANGED <<now, users, cache, contacts, call, today>>

\* user_repo.change_confirmed_email(email)
confirmed_email_commit(r) ==
    /\ req[r].op = "confirm"
    /\ req[r].pc = "commit"
    /\ users' = change_confirmed_email(users, req[r].email)
    /\ req' = Respond(r, HTTP_200_OK, "Email confirmed")
    /\ UNCHANGED <<now, cache, contacts, call, today>>

\* ------------------------------------------------ POST /auth/request_email
\* 404 for an unknown address, 409 for a confirmed one, else a new
\* confirmation e-mail
request_email(r, emails) ==
    \E email \in emails :
        /\ CanStart(r)
        /\ LET user == get_user_by_email(users, email)
               rq == NewReq("reqemail", NoToken, [email |-> email])
           IN IF user = NoUser
              THEN req' = [req EXCEPT ![r] = [rq EXCEPT !.pc = "done",
                                                        !.status = HTTP_404_NOT_FOUND,
                                                        !.detail = "User not found"]]
              ELSE IF user.confirmed
              THEN req' = [req EXCEPT ![r] = [rq EXCEPT !.pc = "done",
                                                        !.status = HTTP_409_CONFLICT,
                                                        !.detail = "Email is already confirmed"]]
              ELSE req' = [req EXCEPT ![r] = [rq EXCEPT !.pc = "done",
                               !.status = HTTP_200_OK,
                               !.detail = "New confirmation email sent",
                               !.mailed = create_jwt_token(user.email, "verification_token",
                                                           DefaultExpiresDelta, now)]]
        /\ UNCHANGED <<now, users, cache, contacts, call, today>>

\* ---------------------------------------- POST /auth/request_password_reset
\* request_password_reset that answers 404 for an unknown address, as
\* request_email does
request_password_reset_404(r, emails) ==
    \E email \in emails :
        /\ CanStart(r)
        /\ LET user == get_user_by_email(users, email)
               rq == NewReq("reqreset", NoToken, [email |-> email])
           IN IF user = NoUser
              THEN req' = [req EXCEPT ![r] = [rq EXCEPT !.pc = "done",
                                                        !.status = HTTP_404_NOT_FOUND,
                                                        !.detail = "User not found"]]
              ELSE req' = [req EXCEPT ![r] = [rq EXCEPT !.pc = "done",
                               !.status = HTTP_202_ACCEPTED,
                               !.detail = "If a user with that email exists, a password reset link has been sent.",
                               !.mailed = create_jwt_token(user.email, "password_reset",
                                                           ResetExpiresDelta, now)]]
        /\ UNCHANGED <<now, users, cache, contacts, call, today>>

request_password_reset(r, emails) ==
    \E email \in emails :
        /\ CanStart(r)
        /\ LET user == get_user_by_email(users, email)
               reset_token == IF user # NoUser
                              THEN create_jwt_token(user.email, "password_reset",
                                                    ResetExpiresDelta, now)
                              ELSE NoToken
           IN req' = [req EXCEPT ![r] = [NewReq("reqreset", NoToken, [email |-> email])
                                         EXCEPT !.pc = "done", !.status = HTTP_202_ACCEPTED,
                                                !.detail = "If a user with that email exists, a password reset link has been sent.",
                                                !.mailed = reset_token]]
        /\ UNCHANGED <<now, users, cache, contacts, call, today>>

\* ----------------------------------------- POST /auth/reset_password/{token}
\* decode_jwt_token(token, scope="password_reset") with its 401 turned into
\* 400, then user_repo.get_user_by_email(email)
reset_password(r, emails) ==
    \E token \in Presentable(emails), new_password \in Passwords :
        /\ CanStart(r)
        /\ LET rq == NewReq("reset", token, [new_password |-> new_password])
               d == decode_jwt_token(token, "password_reset", now)
               user == get_user_by_email(users, d.email)
           IN IF d.status # HTTP_200_OK
              THEN req' = [req EXCEPT ![r] = [rq EXCEPT !.pc = "done",
                                                        !.status = HTTP_400_BAD_REQUEST,
                                                        !.detail = "Invalid or expired token."]]
              ELSE IF user = NoUser
              THEN req' = [req EXCEPT ![r] = [rq EXCEPT !.pc = "done", !.email = d.email,
                                                        !.status = HTTP_404_NOT_FOUND,
                                                        !.detail = "User not found."]]
              ELSE req' = [req EXCEPT ![r] = [rq EXCEPT !.pc = "commit", !.email = d.email,
                                                        !.user = user]]
        /\ UNCHANGED <<now, users, cache, contacts, call, today>>

\* hash_password(body.new_password); user_repo.update_password(user, hash):
\* the UPDATE of a row that is gone is a StaleDataError nobody catches
reset_password_commit(r) ==
    /\ req[r].op = "reset"
    /\ req[r].pc = "commit"
    /\ LET hashed_password == hash_password(req[r].body.new_password, FreshSalt(req[r].body.new_password))
       IN IF get_user_by_id(users, req[r].user.id) = NoUser
          THEN /\ req' = Respond(r, HTTP_500_INTERNAL_SERVER_ERROR, "StaleDataError")
               /\ UNCHANGED users
          ELSE /\ users' = update_password(users, req[r].user, hashed_password)
               /\ req' = [req EXCEPT ![r] = [@ EXCEPT !.pc = "evict"]]
    /\ UNCHANGED <<now, cache, contacts, call, today>>

\* auth_service.redis_client.delete(f"user:{user.email}")
reset_password_evict(r) ==
    /\ req[r].op = "reset"
    /\ req[r].pc = "evict"
    /\ cache' = redis_delete(cache, req[r].user.email)
    /\ req' = Respond(r, HTTP_200_OK, "Password has been successfully reset.")
    /\ UNCHANGED <<now, users, contacts, call, today>>

\* --------------------------------------------------------- repository only
\* UserRepository.delete_user(user_id): no route calls it.  The ORM detaches
\* the user's contacts first (UserModel.contacts has no delete cascade), and
\* contacts.user_id is NOT NULL, so only a user without contacts goes.
DeleteUser ==
    \E u \in users :
        /\ \A c \in contacts : c.user_id # u.id
        /\ users' = delete_user(users, u.id)
        /\ UNCHANGED <<now, cache, req, contacts, call, today>>

\* ------------------------------------------------------------ environment
Tick ==
    \E t \in ClockValues :
        /\ t > now
        /\ now' = t
        /\ cache' = redis_expire(cache, now')
        /\ UNCHANGED <<users, req, contacts, call, today>>

AccountEmails(accounts) == {a[2] : a \in accounts}

Step(r, accounts) ==
    \/ read_current_user(r, AccountEmails(accounts))
    \/ get_current_user_db(r)
    \/ get_current_user_cache(r)
    \/ signup(r, accounts)
    \/ signup_insert(r)
    \/ login(r, accounts)
    \/ login_cache(r)
    \/ confirmed_email(r, AccountEmails(accounts))
    \/ confirmed_email_commit(r)
    \/ request_password_reset(r, AccountEmails(accounts))
    \/ reset_password(r, AccountEmails(accounts))
    \/ reset_password_commit(r)
    \/ reset_password_evict(r)

\* ------------------------------------------------------ ContactRepository
\* contact bodies, owners and filter mappings the calls are made with
FirstNames == {<<"J", "o">>, <<"a", "_">>}
Addresses == {[email |-> <<"j", "o">>, phone_number |-> <<"1">>],
              [email |-> <<"b">>, phone_number |-> <<"2">>]}
ContactBodies ==
    {[first_name |-> f, last_name |-> <<"n">>, email |-> a.email,
      phone_number |-> a.phone_number, birthday |-> Date(1995, 5, 15), other_info |-> <<>>] :
        f \in FirstNames, a \in Addresses}
FilterKeys == {"first_name", "email", "nickname"}
FilterValues == {<<"J">>, <<"_">>}
Filters == UNION {[keys -> FilterValues] : keys \in SUBSET FilterKeys}

\* pages and partial bodies the calls are made with
DefaultLimit == 100
Skips == {0, 1}
Limits == {1, DefaultLimit}
ContactUpdates ==
    {[f \in {"first_name"} |-> <<"a", "_">>],
     [f \in {"email"} |-> <<"b">>],
     [f \in {"email", "phone_number"} |-> IF f = "email" THEN <<"b">> ELSE <<"2">>]}

\* POST /contacts/ for current_user u: create_contact(contact_in, u.id); a
\* violated constraint is an IntegrityError that leaves the table as it was
\* and that no handler catches
CreateContact(bodies) ==
    \E contact \in bodies, u \in users :
        /\ Cardinality(contacts) < MaxContacts
        /\ LET id == Min((1..MaxContacts) \ {c.id : c \in contacts})
               cs == create_contact(contacts, contact, u.id, id)
           IN IF ContactsUnique(cs)
              THEN /\ contacts' = cs
                   /\ call' = [op |-> "create_contact", user_id |-> u.id,
                               contact |-> contact, error |-> "none",
                               status |-> HTTP_201_CREATED,
                               result |-> get_contact_by_id(cs, id, u.id)]
              ELSE /\ contacts' = contacts
                   /\ call' = [op |-> "create_contact", user_id |-> u.id,
                               contact |-> contact, error |-> "IntegrityError",
                               status |-> HTTP_500_INTERNAL_SERVER_ERROR,
                               result |-> NoContact]
        /\ UNCHANGED <<now, users, cache, req, today>>

\* get_contacts(user_id, skip, limit): OFFSET and LIMIT without ORDER BY
\* return any rows of the owner, as many as the page holds
GetContacts ==
    \E u \in users, skip \in Skips, limit \in Limits :
        \E page \in get_contacts(contacts, u.id, skip, limit) :
            /\ call' = [op |-> "get_contacts", user_id |-> u.id, skip |-> skip,
                        limit |-> limit, result |-> page]
            /\ UNCHANGED <<now, users, cache, req, contacts, today>>

\* get_contact_by_id(contact_id, user_id)
GetContactById ==
    \E u \in users, contact_id \in 1..MaxContacts :
        /\ call' = [op |-> "get_contact_by_id", user_id |-> u.id,
                    contact_id |-> contact_id,
                    result |-> get_contact_by_id(contacts, contact_id, u.id)]
        /\ UNCHANGED <<now, users, cache, req, contacts, today>>

\* update_contact(contact_id, body, user_id): None for a row that is absent
\* or another user's; a violated constraint fails the commit
UpdateContact ==
    \E u \in users, contact_id \in 1..MaxContacts, body \in ContactUpdates :
        /\ LET cs == update_contact(contacts, contact_id, body, u.id)
               found == get_contact_by_id(contacts, contact_id, u.id) # NoContact
           IN IF ContactsUnique(cs)
              THEN /\ contacts' = cs
                   /\ call' = [op |-> "update_contact", user_id |-> u.id,
                               contact_id |-> contact_id, body |-> body,
                               error |-> "none", committed |-> found,
                               status |-> IF found THEN HTTP_200_OK
                                          ELSE HTTP_404_NOT_FOUND,
                               result |-> get_contact_by_id(cs, contact_id, u.id)]
              ELSE /\ contacts' = contacts
                   /\ call' = [op |-> "update_contact", user_id |-> u.id,
                               contact_id |-> contact_id, body |-> body,
                               error |-> "IntegrityError", committed |-> TRUE,
                               status |-> HTTP_500_INTERNAL_SERVER_ERROR,
                               result |-> NoContact]
        /\ UNCHANGED <<now, users, cache, req, today>>

\* delete_contact(contact_id, user_id)
DeleteContact ==
    \E u \in users, contact_id \in 1..MaxContacts :
        /\ contacts' = delete_contact(contacts, contact_id, u.id)
        /\ LET db_contact == get_contact_by_id(contacts, contact_id, u.id)
           IN call' = [op |-> "delete_contact", user_id |-> u.id,
                       contact_id |-> contact_id,
                       committed |-> db_contact # NoContact,
                       deleted |-> db_contact # NoContact,
                       status |-> IF db_contact # NoContact
                                  THEN HTTP_204_NO_CONTENT ELSE HTTP_404_NOT_FOUND,
                       result |-> db_contact]
        /\ UNCHANGED <<now, users, cache, req, today>>

\* search_contacts_repo(filters, user_id)
SearchContacts(mappings) ==
    \E filters \in mappings, u \in users :
        /\ LET found == search_contacts_repo(contacts, filters, u.id)
           IN call' = [op |-> "search_contacts_repo", filters |-> filters,
                       user_id |-> u.id, result |-> found.result,
                       executed |-> found.executed]
        /\ UNCHANGED <<now, users, cache, req, contacts, today>>

\* delete_user(user_id): the flush detaches the user's contacts before the
\* DELETE (UserModel.contacts carries no delete cascade), which the NOT NULL
\* contacts.user_id refuses
DeleteUserCall ==
    \E u \in users :
        /\ IF \E c \in contacts : c.user_id = u.id
           THEN /\ users' = users
                /\ call' = [op |-> "delete_user", user_id |-> u.id,
                            error |-> "IntegrityError"]
           ELSE /\ users' = delete_user(users, u.id)
                /\ call' = [op |-> "delete_user", user_id |-> u.id, error |-> "none"]
        /\ UNCHANGED <<now, cache, req, contacts, today>>

\* birthdays of contacts and the days and windows the query runs with
Birthdays ==
    {Date(1995, 5, 15), Date(1995, 12, 31), Date(2000, 1, 3), Date(2000, 2, 29)}
OtherBirthdays == {Date(1995, 5, 1), Date(1990, 12, 20), Date(1990, 3, 1)}
BirthdayBodies ==
    {[first_name |-> <<"J", "o">>, last_name |-> <<"n">>, email |-> <<"j", "o">>,
      phone_number |-> <<"1">>, birthday |-> b, other_info |-> <<>>] : b \in Birthdays}
    \cup
    {[first_name |-> <<"a", "_">>, last_name |-> <<"n">>, email |-> <<"b">>,
      phone_number |-> <<"2">>, birthday |-> b, other_info |-> <<>>] : b \in OtherBirthdays}
DateRange(first, n) == {AddDays(first, i) : i \in 0..n}
Todays ==
    {Date(2025, 5, 10), Date(2025, 12, 30), Date(2025, 12, 24), Date(2025, 12, 25),
     Date(2025, 1, 31), Date(2025, 2, 21), Date(2025, 2, 22), Date(2025, 2, 28),
     Date(2025, 3, 1), Date(2024, 2, 22), Date(2024, 2, 23), Date(2024, 2, 29),
     Date(2025, 4, 23), Date(2025, 4, 24)}
DefaultDays == 7
Windows == {0, DefaultDays, 40}

\* get_contacts_upcoming_birthdays(user_id, days)
UpcomingBirthdays ==
    \E u \in users, days \in Windows :
        /\ call' = [op |-> "get_contacts_upcoming_birthdays", user_id |-> u.id,
                    days |-> days,
                    result |-> get_contacts_upcoming_birthdays(contacts, u.id, days, today)]
        /\ UNCHANGED <<now, users, cache, req, contacts, today>>

\* the lists of roles a RoleChecker is built with
RequiredRoles == UNION {[1..n -> Roles] : n \in 0..MaxRequiredRoles}

\* RoleChecker(required_roles) called with a resolved user
CheckRole ==
    \E u \in users, role \in Roles, required_roles \in RequiredRoles :
        /\ LET user == [f \in DOMAIN u \cup {"role"} |->
                           IF f = "role" THEN role ELSE u[f]]
               outcome == RoleChecker(required_roles, user)
           IN call' = [op |-> "RoleChecker", user |-> user,
                       required_roles |-> required_roles, error |-> outcome.error,
                       status |-> outcome.status, detail |-> outcome.detail]
        /\ UNCHANGED <<now, users, cache, req, contacts, today>>

\* one person, one request at a time
OneAccount == {<<"n1", "e1">>}

Next ==
    \/ Step(1, OneAccount)
    \/ DeleteUser
    \/ Tick

Spec == Init /\ [][Next]_vars

\* profile edits next to sign-up, login and identity resolution
NextProfile ==
    \/ read_current_user(1, AccountEmails(OneAccount))
    \/ get_current_user_db(1)
    \/ get_current_user_cache(1)
    \/ update_avatar_user_start(1, AccountEmails(OneAccount))
    \/ update_avatar_user(1)
    \/ signup(1, OneAccount)
    \/ signup_insert(1)
    \/ login(1, OneAccount)
    \/ login_cache(1)
    \/ confirmed_email(1, AccountEmails(OneAccount))
    \/ confirmed_email_commit(1)
    \/ request_email(1, AccountEmails(OneAccount))
    \/ Tick

SpecProfile == Init /\ [][NextProfile]_vars

\* requests for one account whose steps interleave
NextConc ==
    \E r \in Reqs :
        \/ read_current_user(r, AccountEmails(OneAccount))
        \/ get_current_user_db(r)
        \/ get_current_user_cache(r)
        \/ signup(r, OneAccount)
        \/ signup_insert(r)
        \/ login(r, OneAccount)
        \/ login_cache(r)
        \/ request_password_reset(r, AccountEmails(OneAccount))
        \/ reset_password(r, AccountEmails(OneAccount))
        \/ reset_password_commit(r)
        \/ reset_password_evict(r)

SpecConc == Init /\ [][NextConc]_vars

\* sign-ups for clashing names and addresses whose steps interleave
SignupAccounts == {<<"n1", "e1">>, <<"n1", "e2">>}

NextSignup ==
    \E r \in Reqs :
        \/ signup(r, SignupAccounts)
        \/ signup_insert(r)

SpecSignup == Init /\ [][NextSignup]_vars

\* the contact repository called on behalf of two registered users
TwoUsers ==
    {[id |-> 1, username |-> "n1", email |-> "e1",
      hashed_password |-> hash_password("p1", 1), avatar |-> NoAvatar,
      confirmed |-> TRUE],
     [id |-> 2, username |-> "n2", email |-> "e2",
      hashed_password |-> hash_password("p1", 2), avatar |-> NoAvatar,
      confirmed |-> TRUE]}

InitSearch ==
    /\ now = 0
    /\ users = TwoUsers
    /\ cache = [e \in Emails |-> NoEntry]
    /\ req = [r \in Reqs |-> IdleReq]
    /\ contacts = {}
    /\ call = NoCall
    /\ today = Date(2025, 5, 10)

NextSearch ==
    \/ CreateContact(ContactBodies)
    \/ SearchContacts(Filters)

SpecSearch == InitSearch /\ [][NextSearch]_vars

\* every contact operation, and the removal of users, for two users
NextContacts ==
    \/ CreateContact(ContactBodies)
    \/ GetContacts
    \/ GetContactById
    \/ UpdateContact
    \/ DeleteContact
    \/ SearchContacts({f \in Filters : DOMAIN f = {"first_name"}})
    \/ UpcomingBirthdays
    \/ DeleteUserCall

SpecContacts == InitSearch /\ [][NextContacts]_vars

\* the permission check applied to registered users
NextRoles == CheckRole

SpecRoles == InitSearch /\ [][NextRoles]_vars

\* the birthdays query on the days around month ends and a year end
InitBirthdays ==
    /\ now = 0
    /\ users = TwoUsers
    /\ cache = [e \in Emails |-> NoEntry]
    /\ req = [r \in Reqs |-> IdleReq]
    /\ contacts = {}
    /\ call = NoCall
    /\ today \in Todays

NextBirthdays ==
    \/ CreateContact(BirthdayBodies)
    \/ UpcomingBirthdays

SpecBirthdays == InitBirthdays /\ [][NextBirthdays]_vars

\* ------------------------------------------------------------------ claims
\* the step in which slot r takes up a new request
StartStep(r) == CanStart(r) /\ req'[r] # req[r]

\* slot r takes up a request that resolves the caller from a bearer token
\* which decodes, at this instant, as an access token
ResolveStep(r) ==
    /\ StartStep(r)
    /\ req'[r].op \in Authenticated
    /\ decode_jwt_token(req'[r].token, "access_token", now).status = HTTP_200_OK

\* C1: identity resolution with a valid access token whose e-mail has a
\* live cache entry returns the cached snapshot and never queries the user
\* store, whatever the store holds.
C1_WarmCacheSkipsStore ==
    [][\A r \in Reqs :
        (ResolveStep(r) /\ cache[req'[r].token.email] # NoEntry)
            => /\ req'[r].user = pickle_loads(cache[req'[r].token.email].data)
               /\ ~req'[r].queried
               /\ req'[r].pc # "db"
               /\ req'[r].op = "me" => (req'[r].pc = "done" /\ req'[r].status = HTTP_200_OK)]_vars

\* a /me request answered from the cache while the store holds a row for
\* the same address
C1_Witness ==
    /\ req[1].op = "me" /\ req[1].pc = "done" /\ req[1].status = HTTP_200_OK
    /\ ~req[1].queried
    /\ cache[req[1].email] # NoEntry
    /\ req[1].user = pickle_loads(cache[req[1].email].data)
    /\ get_user_by_email(users, req[1].email) # NoUser

\* C3: a successful reset_password commits the new hash first and deletes
\* user:<email> second; with no other request interleaved the key is absent
\* when it has returned, and the next identity resolution misses and goes
\* to the store.
C3_ResetCommitsThenEvicts ==
    [][\A r \in Reqs :
        /\ (req[r].op = "reset" /\ req[r].pc = "commit" /\ req'[r].pc = "evict")
              => /\ cache' = cache
                 /\ get_user_by_id(users', req[r].user.id).hashed_password.pw
                        = req[r].body.new_password
                 /\ get_user_by_id(users', req[r].user.id).hashed_password
                        # req[r].user.hashed_password
        /\ (req[r].op = "reset" /\ req[r].pc # "done" /\ req'[r].pc = "done"
                /\ req'[r].status = HTTP_200_OK)
              => /\ req[r].pc = "evict"
                 /\ users' = users
                 /\ cache'[req[r].email] = NoEntry
        /\ (req[r].op = "reset" /\ req[r].pc = "done" /\ req[r].status = HTTP_200_OK)
              => /\ cache[req[r].email] = NoEntry
                 /\ (ResolveStep(r) /\ req'[r].token.email = req[r].email)
                       => (req'[r].pc = "db" /\ req'[r].user = NoUser)]_vars

\* reset_password has committed the new hash and is about to delete a key
\* that still holds the pre-reset snapshot
C3_Witness ==
    /\ req[1].op = "reset" /\ req[1].pc = "evict"
    /\ cache[req[1].email] # NoEntry
    /\ pickle_loads(cache[req[1].email].data).hashed_password = req[1].user.hashed_password
    /\ get_user_by_email(users, req[1].email).hashed_password # req[1].user.hashed_password

\* C4: decoding an unexpired, correctly signed token under a scope other
\* than the one it was issued with fails with 401, and a request that
\* presents a verification or reset token to get_current_user ends in 401
\* without a user.
C4_ScopeMismatchRejected ==
    /\ \A token \in Presentable(Emails), scope \in Scopes :
          (token.signed /\ token.exp >= now /\ token.scope # scope)
             => /\ decode_jwt_token(token, scope, now).status = HTTP_401_UNAUTHORIZED
                /\ decode_jwt_token(token, scope, now).email = NoEmail
    /\ \A r \in Reqs :
          (req[r].op \in Authenticated /\ req[r].token.scope # "access_token")
             => /\ req[r].pc = "done"
                /\ req[r].status = HTTP_401_UNAUTHORIZED
                /\ req[r].user = NoUser

\* an unexpired verification token of a registered, cached user was
\* presented to /me and refused for its scope
C4_Witness ==
    /\ req[1].op = "me" /\ req[1].pc = "done"
    /\ req[1].token.signed /\ req[1].token.scope = "verification_token"
    /\ req[1].token.exp >= now
    /\ req[1].status = HTTP_401_UNAUTHORIZED /\ req[1].detail = "Invalid token scope"
    /\ cache[req[1].token.email] # NoEntry
    /\ get_user_by_email(users, req[1].token.email) # NoUser

\* C5: a token issued with lifetime ttl carries exp = issue time + ttl and
\* is refused (401) by decode_jwt_token at every later instant, under every
\* expected scope; the handlers refuse the request (reset_password with its
\* own 400).
C5_ExpiredTokenRejected ==
    /\ [](\A token \in Presentable(Emails), scope \in Scopes :
            token.exp < now
               => decode_jwt_token(token, scope, now).status = HTTP_401_UNAUTHORIZED)
    /\ [][\A r \in Reqs :
            /\ (StartStep(r) /\ req'[r].token # NoToken /\ req'[r].token.exp < now)
                  => /\ req'[r].pc = "done"
                     /\ req'[r].user = NoUser
                     /\ req'[r].status = IF req'[r].op = "reset"
                                         THEN HTTP_400_BAD_REQUEST
                                         ELSE HTTP_401_UNAUTHORIZED
            /\ (req'[r].access_token # req[r].access_token
                    /\ req'[r].access_token # NoToken)
                  => req'[r].access_token.exp = now + DefaultExpiresDelta]_vars

\* a correctly signed access token of a registered user, presented to /me
\* after its exp and refused
C5_Witness ==
    /\ req[1].op = "me" /\ req[1].pc = "done"
    /\ req[1].token.signed /\ req[1].token.scope = "access_token"
    /\ req[1].token.exp < now
    /\ req[1].status = HTTP_401_UNAUTHORIZED
    /\ get_user_by_email(users, req[1].token.email) # NoUser

\* C6: on a cache miss identity resolution queries the user store by the
\* decoded e-mail; when the store has no such user the request fails with
\* 401 and no cache entry is written.
C6_MissUnknownUserRejected ==
    [][\A r \in Reqs :
        /\ (ResolveStep(r) /\ cache[req'[r].token.email] = NoEntry)
              => /\ req'[r].pc = "db"
                 /\ req'[r].email = req'[r].token.email
                 /\ cache' = cache
        /\ (req[r].op \in Authenticated /\ req[r].pc = "db" /\ req'[r] # req[r])
              => /\ req'[r].queried
                 /\ cache' = cache
                 /\ IF \E u \in users : u.email = req[r].email
                    THEN req'[r].pc = "cache" /\ req'[r].user \in users
                                             /\ req'[r].user.email = req[r].email
                    ELSE /\ req'[r].pc = "done"
                         /\ req'[r].status = HTTP_401_UNAUTHORIZED
                         /\ req'[r].user = NoUser]_vars

\* /me with a valid access token missed the cache, queried the store, found
\* nobody and was refused; the key is still absent
C6_Witness ==
    /\ req[1].op = "me" /\ req[1].pc = "done"
    /\ req[1].queried
    /\ req[1].status = HTTP_401_UNAUTHORIZED
    /\ req[1].token.signed /\ req[1].token.exp >= now
    /\ get_user_by_email(users, req[1].email) = NoUser
    /\ cache[req[1].email] = NoEntry

\* C7: on a miss with the user in the store get_current_user writes
\* user:<email> with that user's snapshot and a one-hour time-to-live before
\* it returns; no entry is ever older than one hour.
C7_MissPopulatesCacheForOneHour ==
    /\ [][\A r \in Reqs :
            (req[r].op \in Authenticated /\ req[r].pc = "cache" /\ req'[r] # req[r])
               => /\ cache'[req[r].email] = [data |-> pickle_dumps(req[r].user),
                                              expiresAt |-> now + CacheTTL]
                  /\ req'[r].user = req[r].user
                  /\ req'[r].op = "me" => (req'[r].pc = "done"
                                            /\ req'[r].status = HTTP_200_OK)]_vars
    /\ [](\A e \in Emails :
            cache[e] # NoEntry
               => (now < cache[e].expiresAt /\ cache[e].expiresAt <= now + CacheTTL))

\* /me missed at time 0, populated the cache and returned; one hour later,
\* with nothing else done, the key is gone
C7_Witness ==
    /\ req[1].op = "me" /\ req[1].pc = "done"
    /\ req[1].queried /\ req[1].status = HTTP_200_OK
    /\ req[1].token.exp = DefaultExpiresDelta
    /\ now = CacheTTL
    /\ cache[req[1].email] = NoEntry

\* C8: the avatar update and the e-mail confirmation leave the cache
\* untouched, so identity resolution within the entry's time-to-live keeps
\* returning the snapshot taken before the edit.
C8_ProfileEditsKeepCacheEntry ==
    [][\A r \in Reqs :
        /\ (/\ req'[r].op = "avatar" /\ req'[r] # req[r]
            /\ \/ req[r].pc # "cache"
               \/ cache[req'[r].email] # NoEntry)
              => cache' = cache
        /\ (req[r].op = "confirm" /\ req'[r] # req[r])
              => cache' = cache
        /\ (ResolveStep(r) /\ cache[req'[r].token.email] # NoEntry
                /\ cache'[req'[r].token.email] # NoEntry)
              => /\ req'[r].user = pickle_loads(cache'[req'[r].token.email].data)
                 /\ ~req'[r].queried]_vars

\* after an avatar update /me was answered from the cache with the
\* snapshot that still lacks the avatar the store now holds
C8_Witness ==
    /\ req[1].op = "me" /\ req[1].pc = "done" /\ req[1].status = HTTP_200_OK
    /\ ~req[1].queried
    /\ cache[req[1].email] # NoEntry
    /\ req[1].user.avatar = NoAvatar
    /\ get_user_by_email(users, req[1].email) # NoUser
    /\ get_user_by_email(users, req[1].email).id = req[1].user.id
    /\ get_user_by_email(users, req[1].email).avatar \in AvatarUrls

\* C2: in every interleaving of identity resolutions, logins and password
\* resets for one e-mail, an identity resolution that starts after a
\* reset_password for that e-mail has completed does not return a snapshot
\* with the hash the reset replaced.
C2_NoPreResetSnapshotAfterReset ==
    [][\A r, done \in Reqs :
        (/\ req[done].op = "reset" /\ req[done].pc = "done"
         /\ req[done].status = HTTP_200_OK
         /\ ResolveStep(r)
         /\ req'[r].token.email = req[done].email
         /\ req'[r].user # NoUser)
           => req'[r].user.hashed_password # req[done].user.hashed_password]_vars

\* the contacts of owner for which every filter on a column is, folded to
\* one case, a substring of the column's value
Contains(text, value) ==
    \E i \in 1..(Len(text) + 1) :
        /\ i + Len(value) - 1 <= Len(text)
        /\ SubSeq(LowerText(text), i, i + Len(value) - 1) = LowerText(value)

SubstringMatches(cs, filters, user_id) ==
    {c \in cs :
        /\ c.user_id = user_id
        /\ \A f \in DOMAIN filters \cap TextColumns : Contains(c[f], filters[f])}

\* C9: search_contacts_repo called with an empty filter mapping returns the
\* empty list, whoever the owner is and whatever the store holds, and does
\* not query the store.
C9_EmptyFiltersReturnNothing ==
    (call.op = "search_contacts_repo" /\ DOMAIN call.filters = {})
        => (call.result = {} /\ ~call.executed)

\* an empty mapping was searched for an owner who has a contact
C9_Witness ==
    /\ call.op = "search_contacts_repo"
    /\ DOMAIN call.filters = {}
    /\ call.result = {}
    /\ \E c \in contacts : c.user_id = call.user_id

\* C10: for a non-empty filter mapping search_contacts_repo returns exactly
\* the owner's contacts for which every filter whose key names a contact
\* column is a case-insensitive substring of that column's value.
C10_SearchIsSubstringMatch ==
    (call.op = "search_contacts_repo" /\ DOMAIN call.filters # {})
        => call.result = SubstringMatches(contacts, call.filters, call.user_id)

\* the (month, day) pairs of the calendar dates first, first + 1, ..., first + n
MonthDays(first, n) == {<<d.month, d.day>> : d \in DateRange(first, n)}

\* C11: get_contacts_upcoming_birthdays(owner, days) ignores the year of a
\* birthday and, with future = today + days, returns exactly the owner's
\* contacts whose birthday lies in today's month on a day from today.day to
\* future.day when both dates share the month, and otherwise in today's
\* month from today.day on or in future's month up to future.day.
C11_BirthdaysByMonthAndDay ==
    call.op = "get_contacts_upcoming_birthdays" =>
        LET future == AddDays(today, call.days)
            hit(m, d) ==
                IF today.month = future.month
                THEN m = today.month /\ today.day <= d /\ d <= future.day
                ELSE \/ (m = today.month /\ d >= today.day)
                     \/ (m = future.month /\ d <= future.day)
        IN call.result = {c \in contacts : /\ c.user_id = call.user_id
                                           /\ hit(c.birthday.month, c.birthday.day)}

\* on 2025-12-30 the query returned a contact born on a 3 January and left
\* out one born on a 20 December
C11_Witness ==
    /\ call.op = "get_contacts_upcoming_birthdays"
    /\ today = Date(2025, 12, 30)
    /\ call.days = DefaultDays
    /\ \E c \in call.result : c.birthday = Date(2000, 1, 3)
    /\ \E c \in contacts \ call.result :
          c.user_id = call.user_id /\ c.birthday = Date(1990, 12, 20)

LeapDayInShortFebruary(birthday) ==
    /\ birthday.month = 2 /\ birthday.day = 29
    /\ today.month = 2 /\ ~IsLeap(today.year)
    /\ AddDays(today, DefaultDays).month = 3

C13_OwnerIsolation ==
    /\ [](/\ call.op \in {"get_contacts", "search_contacts_repo",
                          "get_contacts_upcoming_birthdays"}
              => \A c \in call.result : c.user_id = call.user_id
          /\ (call.op \in {"get_contact_by_id", "update_contact", "delete_contact"}
                  /\ call.result # NoContact)
              => call.result.user_id = call.user_id)
    /\ [][call'.op \in {"update_contact", "delete_contact"}
             => \A c \in contacts \ contacts' : c.user_id = call'.user_id]_vars

\* a user asked to delete another user's contact: nothing was found and the
\* contact is still there
C13_Witness ==
    /\ call.op = "delete_contact"
    /\ call.result = NoContact
    /\ \E c \in contacts : c.id = call.contact_id /\ c.user_id # call.user_id

\* C14: in every reachable state of the contact store no two distinct
\* contacts of one user share an email and no two share a phone_number.
C14_ContactEmailAndPhoneUniquePerUser ==
    \A c, d \in contacts :
        (c # d /\ c.user_id = d.user_id)
            => (c.email # d.email /\ c.phone_number # d.phone_number)

\* an update that would have given a user's two contacts one email was
\* refused
C14_Witness ==
    /\ call.op = "update_contact"
    /\ call.error = "IntegrityError"
    /\ \E c, d \in contacts :
          /\ c # d /\ c.user_id = call.user_id /\ d.user_id = call.user_id
          /\ c.id = call.contact_id
          /\ "email" \in DOMAIN call.body /\ d.email = call.body.email

\* C15: creating a contact whose email is that of another user's contact
\* succeeds; creating one whose email is that of a contact of the same
\* user fails with 409 and leaves the contact store unchanged.
C15_DuplicateContactEmailConflict ==
    [][call'.op = "create_contact" =>
        LET same == \E c \in contacts : /\ c.user_id = call'.user_id
                                        /\ c.email = call'.contact.email
            other == \E c \in contacts : /\ c.user_id # call'.user_id
                                         /\ c.email = call'.contact.email
        IN /\ same => (call'.status = HTTP_409_CONFLICT /\ contacts' = contacts)
           /\ (other /\ ~same) => (/\ call'.status = HTTP_201_CREATED
                                  /\ call'.result \in contacts' \ contacts)]_vars

C17_UsernameAndEmailUnique ==
    \A u, v \in users : u # v => (u.email # v.email /\ u.username # v.username)

\* two sign-ups for one address were both past the check; one was
\* committed and the other failed at its INSERT
C17_Witness ==
    \E r, q \in Reqs :
        /\ r # q
        /\ req[r].op = "signup" /\ req[q].op = "signup"
        /\ req[r].body.email = req[q].body.email
        /\ req[r].pc = "done" /\ req[r].status = HTTP_201_CREATED
        /\ req[q].pc = "done" /\ req[q].detail = "IntegrityError"
        /\ Cardinality(users) = 1

\* the step in which slot r answers its sign-up
SignupAnswer(r) ==
    /\ req'[r].op = "signup" /\ req'[r].pc = "done"
    /\ req'[r] # req[r]

\* C18: a sign-up whose email or whose username already belongs to a
\* registered user is answered 409, creates no user record and schedules no
\* confirmation e-mail.
C18_DuplicateSignupConflict ==
    [][\A r \in Reqs :
        (/\ SignupAnswer(r)
         /\ \E u \in users : \/ u.email = req'[r].body.email
                              \/ u.username = req'[r].body.username)
            => /\ req'[r].status = HTTP_409_CONFLICT
               /\ users' = users
               /\ req'[r].mailed = NoToken]_vars

\* C19: every user record created by signup has confirmed = false,
\* whatever the request body holds.
C19_SignupCreatesUnconfirmed ==
    [][\A r \in Reqs :
        SignupAnswer(r) => \A u \in users' \ users : u.confirmed = FALSE]_vars

\* C20: request_password_reset answers 202 with one and the same body
\* whether or not a user with the submitted email exists.
C20_ResetRequestUniform ==
    \A r \in Reqs :
        (req[r].op = "reqreset" /\ req[r].pc = "done")
            => /\ req[r].status = HTTP_202_ACCEPTED
               /\ req[r].detail = "If a user with that email exists, a password reset link has been sent."

\* a reset was requested for an address nobody is registered with: 202 and
\* no mail
C20_Witness ==
    /\ req[1].op = "reqreset" /\ req[1].pc = "done"
    /\ req[1].status = HTTP_202_ACCEPTED
    /\ req[1].mailed = NoToken
    /\ get_user_by_email(users, req[1].body.email) = NoUser

\* C21: request_email answers with one and the same success response
\* whether or not a user with the submitted email exists.
C21_RequestEmailUniform ==
    \A r \in Reqs :
        (/\ req[r].op = "reqemail" /\ req[r].pc = "done"
         /\ get_user_by_email(users, req[r].body.email) = NoUser)
            => /\ req[r].status = HTTP_200_OK
               /\ req[r].detail = "New confirmation email sent"

\* the scope a handler asks of the token it is given
TokenScope(op) ==
    CASE op = "confirm" -> "verification_token"
      [] op = "reset" -> "password_reset"
      [] OTHER -> "access_token"

\* slot r answers in this step, turning the request down because of its
\* token
TokenRejected(r) ==
    /\ CanStart(r) /\ req'[r] # req[r]
    /\ req'[r].op \in Authenticated \cup {"confirm", "reset"}
    /\ decode_jwt_token(req'[r].token, TokenScope(req'[r].op), now).status # HTTP_200_OK

\* slot r answers in this step, turning the request down because the user
\* named by the token is not in the store
UnknownUserRejected(r) ==
    \/ /\ req[r].pc = "db" /\ req'[r].pc = "done"
       /\ get_user_by_email(users, req[r].email) = NoUser
    \/ /\ CanStart(r) /\ req'[r] # req[r]
       /\ req'[r].op \in {"confirm", "reset"}
       /\ decode_jwt_token(req'[r].token, TokenScope(req'[r].op), now).status = HTTP_200_OK
       /\ get_user_by_email(users, req'[r].token.email) = NoUser

\* slot r answers a login in this step, turning it down because the user
\* is unknown or the password is wrong
LoginRejected(r) ==
    /\ CanStart(r) /\ req'[r] # req[r]
    /\ req'[r].op = "login"
    /\ LET user == get_user_by_username(users, req'[r].body.username)
       IN \/ user = NoUser
          \/ ~verify_password(req'[r].body.password, user.hashed_password)

\* C22: every request turned down for an invalid, expired or wrong-purpose
\* token, an unknown user or a wrong password is answered 401, in
\* get_current_user, login, confirmed_email and reset_password alike.
C22_AuthRejectionsAre401 ==
    [][\A r \in Reqs :
        (TokenRejected(r) \/ UnknownUserRejected(r) \/ LoginRejected(r))
            => req'[r].status = HTTP_401_UNAUTHORIZED]_vars

\* C22 (amended): such a request is answered 401 by get_current_user, by
\* login and, for a rejected token, by confirmed_email; confirmed_email
\* answers 400 for an unknown user, and reset_password answers 400 for a
\* rejected token and 404 for an unknown user.
C22_AuthRejectionStatusPerHandler ==
    [][\A r \in Reqs :
        /\ TokenRejected(r)
              => req'[r].status = IF req'[r].op = "reset" THEN HTTP_400_BAD_REQUEST
                                  ELSE HTTP_401_UNAUTHORIZED
        /\ UnknownUserRejected(r)
              => req'[r].status = CASE req'[r].op = "reset" -> HTTP_404_NOT_FOUND
                                    [] req'[r].op = "confirm" -> HTTP_400_BAD_REQUEST
                                    [] OTHER -> HTTP_401_UNAUTHORIZED
        /\ LoginRejected(r) => req'[r].status = HTTP_401_UNAUTHORIZED]_vars

\* a password reset presented with a token that does not decode as a
\* reset token was answered 400
C22_Witness ==
    /\ req[1].op = "reset" /\ req[1].pc = "done"
    /\ req[1].status = HTTP_400_BAD_REQUEST
    /\ req[1].token.scope # "password_reset"

\* C23: RoleChecker(required_roles) applied to a user raises a 403 error
\* exactly when the user's role is not a member of required_roles, returns
\* without error otherwise, and changes no state either way.
C23_RoleCheckerForbidsExactlyNonMembers ==
    /\ [](call.op = "RoleChecker" =>
            LET member == call.user.role \in
                            {call.required_roles[i] : i \in 1..Len(call.required_roles)}
            IN /\ ~member => (call.error = "HTTPException"
                                /\ call.status = HTTP_403_FORBIDDEN)
               /\ member => call.error = "none")
    /\ [][call'.op = "RoleChecker"
             => UNCHANGED <<now, users, cache, req, contacts, today>>]_vars

\* a user whose role is the second of the required roles passed
C23_Witness ==
    /\ call.op = "RoleChecker"
    /\ call.error = "none"
    /\ Len(call.required_roles) >= 2
    /\ call.required_roles[1] # call.user.role
    /\ call.required_roles[2] = call.user.role

\* C24: search_contacts_repo returns an empty list whenever no field
\* condition is applied: for a non-empty filter mapping none of whose keys
\* names a contact column the result is empty, never the owner's full list.
C24_NoFieldConditionReturnsNothing ==
    (/\ call.op = "search_contacts_repo"
     /\ DOMAIN call.filters # {}
     /\ \A k \in DOMAIN call.filters : model_field(k) = "None")
        => call.result = {}

\* C25: update_contact and delete_contact called with a contact id that does
\* not exist or that belongs to another user return None (answered 404),
\* perform no commit and no delete, and leave every contact unchanged.
C25_AbsentOrForeignContactUntouched ==
    [][(/\ call'.op \in {"update_contact", "delete_contact"}
        /\ ~\E c \in contacts :
               c.id = call'.contact_id /\ c.user_id = call'.user_id)
           => /\ call'.result = NoContact
              /\ call'.status = HTTP_404_NOT_FOUND
              /\ ~call'.committed
              /\ call'.op = "delete_contact" => ~call'.deleted
              /\ contacts' = contacts]_vars

\* a user asked to update another user's contact: 404 and no commit
C25_Witness ==
    /\ call.op = "update_contact"
    /\ call.result = NoContact
    /\ call.status = HTTP_404_NOT_FOUND
    /\ ~call.committed
    /\ \E c \in contacts : c.id = call.contact_id /\ c.user_id # call.user_id

C27_LoginTokenOnlyForVerifiedCredentials ==
    /\ [][(StartStep(1) /\ req'[1].op = "login")
             => LET user == get_user_by_username(users, req'[1].body.username)
                    verified == /\ user # NoUser
                                /\ user.confirmed
                                /\ verify_password(req'[1].body.password,
                                                   user.hashed_password)
                IN IF verified
                   THEN req'[1].pc = "cache" /\ req'[1].user = user
                   ELSE /\ req'[1].pc = "done"
                        /\ req'[1].status = HTTP_401_UNAUTHORIZED
                        /\ req'[1].access_token = NoToken
                        /\ cache' = cache]_vars
    /\ [][(req'[1].op = "login" /\ req'[1] # req[1]
                /\ (cache' # cache \/ req'[1].access_token # NoToken))
             => /\ req[1].op = "login"
                /\ req[1].pc = "cache"
                /\ req'[1].status = HTTP_200_OK
                /\ req'[1].access_token # NoToken]_vars

\* a confirmed user logged in with a wrong password: 401 and no token
C27_Witness ==
    /\ req[1].op = "login"
    /\ req[1].pc = "done"
    /\ req[1].status = HTTP_401_UNAUTHORIZED
    /\ req[1].access_token = NoToken
    /\ \E u \in users : /\ u.username = req[1].body.username
                        /\ u.confirmed
                        /\ ~verify_password(req[1].body.password, u.hashed_password)

\* C28: a user's confirmed flag changes only from false to true, only through
\* confirmed_email presented with a valid verification-scoped token for that
\* user's email, and never returns to false; confirmed_email on an already
\* confirmed user reports 'already confirmed' and leaves the user store
\* unchanged.
C28_ConfirmedOnlyRisesThroughConfirmedEmail ==
    /\ [][\A u \in users, v \in users' :
             (u.id = v.id /\ u.confirmed # v.confirmed)
                 => /\ ~u.confirmed /\ v.confirmed
                    /\ req[1].op = "confirm"
                    /\ req[1].pc = "commit"
                    /\ req[1].token.signed
                    /\ req[1].token.scope = "verification_token"
                    /\ req[1].token.email = u.email]_vars
    /\ [][(StartStep(1) /\ req'[1].op = "confirm")
             => LET d == decode_jwt_token(req'[1].token, "verification_token", now)
                    user == get_user_by_email(users, d.email)
                IN /\ req'[1].pc = "commit" => d.status = HTTP_200_OK
                   /\ (d.status = HTTP_200_OK /\ user # NoUser /\ user.confirmed)
                          => /\ req'[1].pc = "done"
                             /\ req'[1].detail = "Your email is already confirmed"
                             /\ users' = users]_vars

\* a confirmation went through: the token's user is confirmed now
C28_Witness ==
    /\ req[1].op = "confirm"
    /\ req[1].pc = "done"
    /\ req[1].detail = "Email confirmed"
    /\ \E u \in users : u.email = req[1].token.email /\ u.confirmed

\* the commit step of a reset_password stored the hash of the new password,
\* which differs from the hash it replaced and verifies no other password
ResetStoresNewHash ==
    (req[1].op = "reset" /\ req[1].pc = "commit" /\ req'[1].pc = "evict")
          => LET old == get_user_by_id(users, req[1].user.id)
                 new == get_user_by_id(users', req[1].user.id)
             IN /\ new # NoUser
                /\ verify_password(req[1].body.new_password, new.hashed_password)
                /\ new.hashed_password # old.hashed_password
                /\ \A q \in Passwords \ {req[1].body.new_password} :
                       ~verify_password(q, new.hashed_password)

\* a reset_password with a rejected token or for an unknown e-mail ends at
\* once and changes neither the user store nor the cache
FailedResetChangesNothing ==
    (StartStep(1) /\ req'[1].op = "reset")
          => LET d == decode_jwt_token(req'[1].token, "password_reset", now)
             IN (d.status # HTTP_200_OK \/ get_user_by_email(users, d.email) = NoUser)
                    => /\ req'[1].pc = "done"
                       /\ req'[1].status \in {HTTP_400_BAD_REQUEST, HTTP_404_NOT_FOUND}
                       /\ users' = users
                       /\ cache' = cache

\* the login that follows a successful reset_password of a user who is
\* still registered (and, if asked, confirmed): the new password is let
\* through to the token step, any other password is answered 401
LoginAfterReset(confirmedOnly) ==
    (/\ req[1].op = "reset" /\ req[1].pc = "done"
     /\ req[1].status = HTTP_200_OK
     /\ StartStep(1) /\ req'[1].op = "login"
     /\ req'[1].body.username = req[1].user.username
     /\ get_user_by_id(users, req[1].user.id) # NoUser
     /\ (confirmedOnly => get_user_by_id(users, req[1].user.id).confirmed))
          => IF req'[1].body.password = req[1].body.new_password
             THEN req'[1].pc = "cache"
             ELSE /\ req'[1].pc = "done"
                  /\ req'[1].status = HTTP_401_UNAUTHORIZED

\* C29 as stated: after reset_password succeeds for a user with new password
\* p the stored hash is the hash of p and differs from the previous hash; a
\* subsequent login with p succeeds and a login with the previous password
\* (different from p) fails with 401; a reset_password with an invalid token
\* or for an unknown email changes neither any stored hash nor the cache.
C29_ResetThenLoginWithNewPassword ==
    [][/\ ResetStoresNewHash
       /\ LoginAfterReset(FALSE)
       /\ FailedResetChangesNothing]_vars

\* C29 amended: the same, the subsequent login with p succeeding when the
\* user is confirmed; for an unconfirmed user every login is answered 401.
C29_ResetThenConfirmedLoginWithNewPassword ==
    [][/\ ResetStoresNewHash
       /\ LoginAfterReset(TRUE)
       /\ FailedResetChangesNothing
       /\ (/\ StartStep(1) /\ req'[1].op = "login"
           /\ \E u \in users : u.username = req'[1].body.username /\ ~u.confirmed)
             => (req'[1].pc = "done" /\ req'[1].status = HTTP_401_UNAUTHORIZED)]_vars

\* reset_password has succeeded for a confirmed user: the stored hash
\* verifies the new password and is not the hash the request found
C29_Witness ==
    /\ req[1].op = "reset"
    /\ req[1].pc = "done"
    /\ req[1].status = HTTP_200_OK
    /\ \E u \in users : /\ u.id = req[1].user.id
                        /\ u.confirmed
                        /\ verify_password(req[1].body.new_password, u.hashed_password)
                        /\ u.hashed_password # req[1].user.hashed_password
                        /\ req[1].user.hashed_password.pw # req[1].body.new_password

\* C30: for every value of today and every days >= 0 the result of
\* get_contacts_upcoming_birthdays is exactly the owner's contacts whose
\* birthday month/day falls on a calendar date in the closed range
\* [today, today + days], month and year transitions inside the range
\* included.
C30_BirthdaysInRangeForEveryWindow ==
    call.op = "get_contacts_upcoming_birthdays"
        => call.result =
             {c \in contacts :
                 /\ c.user_id = call.user_id
                 /\ <<c.birthday.month, c.birthday.day>> \in MonthDays(today, call.days)}

====
